---------------------------- MODULE Spec2Model ----------------------------
(***************************************************************************)
(* Model of pallas-multiplexer (src/pallas-multiplexer/src/lib.rs): the    *)
(* egress worker tx_loop/tx_step, the ingress worker rx_loop, and the      *)
(* Multiplexer facade (setup, use_channel), together with the application  *)
(* threads that hold the per-protocol Channel handles and the bearer that  *)
(* the two workers write to and read from.                                 *)
(*                                                                         *)
(* Byte strings (Payload = Vec<u8>, and the &[u8] chunks cut from them)    *)
(* are kept run-length encoded: a byte string is a sequence of runs        *)
(* [tag, from, to], the run standing for the bytes from..to-1 of the       *)
(* buffer named tag, every byte of every buffer being a distinct atom.     *)
(* Adjacent runs that continue each other are always merged, so equal      *)
(* byte strings have equal encodings.  The code never looks inside a       *)
(* payload, so what holds for distinct atoms holds for any contents.       *)
(***************************************************************************)
EXTENDS Integers, Sequences, FiniteSets, TLC

MAX_SEGMENT_PAYLOAD_LENGTH == 65535

(* Bounds of the model. *)
MaxEnq == 2       \* payloads the applications enqueue in all
MaxRead == 3      \* segments the bearer yields to read_segment

(* Inputs. *)
ProtocolLists == {<<1, 2>>, <<1, 2, 1>>}     \* the `protocols` given to setup
WireIds == {1, 2, 3}                         \* ids of the segments the bearer yields
WireTimestamps == {7}
Instants == {0, 1}                           \* what Instant::now() returns
PayloadLens == {0, MAX_SEGMENT_PAYLOAD_LENGTH, MAX_SEGMENT_PAYLOAD_LENGTH + 1,
                2 * MAX_SEGMENT_PAYLOAD_LENGTH + 1}
InboundLens == {0, MAX_SEGMENT_PAYLOAD_LENGTH}
FairPayloadLens == {0, MAX_SEGMENT_PAYLOAD_LENGTH + 1}
SystemPayloadLens == {MAX_SEGMENT_PAYLOAD_LENGTH + 1}
SystemWireIds == {1, 3}
SystemInboundLens == {MAX_SEGMENT_PAYLOAD_LENGTH}
MaxSystemRead == 1
MaxBusyEnq == 3
BusyPayloadLens == {MAX_SEGMENT_PAYLOAD_LENGTH + 1}

VARIABLES
    protocols,    \* setup's argument
    mux_state,    \* the Multiplexer value: "live" or "dropped"
    io_handles,   \* Multiplexer.io_handles: id -> channel (index into protocols)
    sender,       \* per channel, where Channel.0 (mux_tx) is: "registry", "app", "dropped"
    receiver,     \* per channel, where Channel.1 (demux_rx) is
    outq,         \* per channel, the queue mux_tx -> mux_rx
    inq,          \* per channel, the queue demux_tx -> demux_rx
    sent,         \* per channel, every payload enqueued on mux_tx so far
    rx_map,       \* tx_loop's map: id -> channel whose mux_rx it holds
    tx_pc,        \* tx_loop: "pass", "scan", "write", "sleep", "panicked"
    tx_todo,      \* ids retain() has still to visit in this pass
    tx_id,        \* tx_step's ingress_id
    tx_payload,   \* tx_step's payload
    tx_chunks,    \* tx_step's chunks
    tx_i,         \* chunks of tx_chunks already written
    clock,        \* tx_loop's clock
    wire,         \* the segments written to the bearer, in order
    tx_map,       \* rx_loop's map: id -> channel whose demux_tx it holds
    rx_pc,        \* rx_loop: "read", "route", "panicked"
    rx_seg,       \* rx_loop's segment
    rxLog,        \* the segments read from the bearer, in order
    delivered,    \* per channel, every payload pushed on demux_tx so far
    join_pc,      \* Multiplexer::join: "idle", "tx", "rx", "returned", "panicked"
    claim_panics, \* the ids for which use_channel has panicked
    write_failed, \* bearer.write_segment has returned an Err
    read_failed   \* bearer.read_segment has returned an Err

vars == <<protocols, mux_state, io_handles, sender, receiver, outq, inq, sent,
          rx_map, tx_pc, tx_todo, tx_id, tx_payload, tx_chunks, tx_i, clock, wire,
          tx_map, rx_pc, rx_seg, rxLog, delivered, join_pc, claim_panics,
          write_failed, read_failed>>

facadeVars == <<join_pc, claim_panics>>
appVars == <<mux_state, io_handles, sender, receiver, facadeVars>>
txVars == <<rx_map, tx_pc, tx_todo, tx_id, tx_payload, tx_chunks, tx_i, clock, wire,
            write_failed>>
rxVars == <<tx_map, rx_pc, rx_seg, rxLog, delivered, read_failed>>

---------------------------------------------------------------------------
(* Byte strings. *)

Min(a, b) == IF a <= b THEN a ELSE b

(* No protocol id: ids are u16, the model's are 1..3. *)
NoId == -(1)

Bytes(tag, len) ==
    IF len = 0 THEN <<>> ELSE <<[tag |-> tag, from |-> 0, to |-> len]>>

RECURSIVE BLen(_)
BLen(b) == IF b = <<>> THEN 0 ELSE (b[1].to - b[1].from) + BLen(Tail(b))

BCat(a, b) ==
    IF a = <<>> THEN b
    ELSE IF b = <<>> THEN a
    ELSE LET x == a[Len(a)]
             y == b[1]
         IN IF x.tag = y.tag /\ x.to = y.from
            THEN SubSeq(a, 1, Len(a) - 1) \o <<[x EXCEPT !.to = y.to]>> \o Tail(b)
            ELSE a \o b

RECURSIVE BCatAll(_)
BCatAll(s) == IF s = <<>> THEN <<>> ELSE BCat(s[1], BCatAll(Tail(s)))

(* The bytes at offsets i..j-1 of b. *)
RECURSIVE BSub(_, _, _)
BSub(b, i, j) ==
    IF b = <<>> \/ i >= j THEN <<>>
    ELSE LET n == b[1].to - b[1].from
         IN IF i >= n THEN BSub(Tail(b), i - n, j - n)
            ELSE <<[tag |-> b[1].tag, from |-> b[1].from + i,
                    to |-> b[1].from + Min(j, n)]>> \o BSub(Tail(b), 0, j - n)

BIsPrefix(a, b) == a = BSub(b, 0, BLen(a))

(* Mutants of chunks: one byte too many per chunk; the short last chunk    *)
(* left out (slice::chunks_exact); the chunks in reverse order.            *)
chunksOversize(p, n) ==
    [k \in 1..((BLen(p) + n) \div (n + 1)) |->
        BSub(p, (k - 1) * (n + 1), Min(k * (n + 1), BLen(p)))]

chunksExact(p, n) ==
    [k \in 1..(BLen(p) \div n) |-> BSub(p, (k - 1) * n, k * n)]

chunksReversed(p, n) ==
    LET m == (BLen(p) + n - 1) \div n
    IN [k \in 1..m |-> BSub(p, (m - k) * n, Min((m - k + 1) * n, BLen(p)))]

(* slice::chunks(n): successive slices of n bytes, the last one shorter;   *)
(* none at all for an empty slice.                                         *)
chunks(p, n) ==
    [k \in 1..((BLen(p) + n - 1) \div n) |->
        BSub(p, (k - 1) * n, Min(k * n, BLen(p)))]

---------------------------------------------------------------------------
(* Multiplexer::setup *)

Chans == DOMAIN protocols

(* Mutant of LastIndexOf: the first pair with the id is the one kept. *)
FirstIndexOf(s, id) == CHOOSE i \in DOMAIN s :
    s[i] = id /\ \A j \in DOMAIN s : s[j] = id => i <= j

LastIndexOf(s, id) == CHOOSE i \in DOMAIN s :
    s[i] = id /\ \A j \in DOMAIN s : s[j] = id => j <= i

(* HashMap::from_iter over (id, handle) pairs: a later pair replaces an    *)
(* earlier one with the same id, whose handle is dropped.                  *)
Collect(s) == [id \in {s[i] : i \in DOMAIN s} |-> LastIndexOf(s, id)]

Kept(s, ch) == Collect(s)[s[ch]] = ch

Init ==
    /\ protocols \in ProtocolLists
    /\ mux_state = "live"
    /\ io_handles = Collect(protocols)
    /\ sender = [ch \in DOMAIN protocols |->
                    IF Kept(protocols, ch) THEN "registry" ELSE "dropped"]
    /\ receiver = [ch \in DOMAIN protocols |->
                    IF Kept(protocols, ch) THEN "registry" ELSE "dropped"]
    /\ outq = [ch \in DOMAIN protocols |-> <<>>]
    /\ inq = [ch \in DOMAIN protocols |-> <<>>]
    /\ sent = [ch \in DOMAIN protocols |-> <<>>]
    /\ rx_map = Collect(protocols)
    /\ tx_pc = "pass"
    /\ tx_todo = {}
    /\ tx_id = NoId
    /\ tx_payload = <<>>
    /\ tx_chunks = <<>>
    /\ tx_i = 0
    /\ clock = 0
    /\ wire = <<>>
    /\ tx_map = Collect(protocols)
    /\ rx_pc = "read"
    /\ rx_seg = <<>>
    /\ rxLog = <<>>
    /\ delivered = [ch \in DOMAIN protocols |-> <<>>]
    /\ join_pc = "idle"
    /\ claim_panics = {}
    /\ write_failed = FALSE
    /\ read_failed = FALSE

---------------------------------------------------------------------------
(* The application: the owner of the Multiplexer and of the Channels. *)

RECURSIVE SumLen(_, _)
SumLen(f, S) == IF S = {} THEN 0
                ELSE LET x == CHOOSE y \in S : TRUE
                     IN Len(f[x]) + SumLen(f, S \ {x})

(* Mutant of Push: the payload is joined to the one queued before it. *)
PushJoined(q, payload) ==
    IF q = <<>> THEN <<payload>> ELSE [q EXCEPT ![Len(q)] = BCat(@, payload)]

(* The queue after Sender::send(payload). *)
Push(q, payload) == Append(q, payload)

(* Mutant of RemoveKey: the entry stays. *)
RemoveNothing(m, id) == m

(* HashMap::remove, and retain() dropping an entry. *)
RemoveKey(m, id) == [k \in DOMAIN m \ {id} |-> m[k]]

(* Mutant of UseChannel: the entry is read with get() and stays. *)
UseChannelKeeps(id) ==
    /\ mux_state = "live"
    /\ id \in DOMAIN io_handles
    /\ sender' = [sender EXCEPT ![io_handles[id]] = "app"]
    /\ receiver' = [receiver EXCEPT ![io_handles[id]] = "app"]
    /\ UNCHANGED <<protocols, mux_state, io_handles, outq, inq, sent, facadeVars,
                   txVars, rxVars>>

(* Multiplexer::use_channel with an id that io_handles holds. *)
UseChannel(id) ==
    /\ mux_state = "live"
    /\ id \in DOMAIN io_handles
    /\ io_handles' = RemoveKey(io_handles, id)
    /\ sender' = [sender EXCEPT ![io_handles[id]] = "app"]
    /\ receiver' = [receiver EXCEPT ![io_handles[id]] = "app"]
    /\ UNCHANGED <<protocols, mux_state, outq, inq, sent, facadeVars, txVars, rxVars>>

(* Multiplexer::use_channel with an id that io_handles does not hold:      *)
(* remove() is None and expect() panics in the caller.                     *)
UseChannelFail(id) ==
    /\ mux_state = "live"
    /\ id \notin DOMAIN io_handles
    /\ claim_panics' = claim_panics \cup {id}
    /\ UNCHANGED <<protocols, mux_state, io_handles, sender, receiver, join_pc,
                   outq, inq, sent, txVars, rxVars>>

(* The Multiplexer goes out of scope: the unclaimed Channels drop with it. *)
DropMultiplexer ==
    /\ mux_state = "live"
    /\ mux_state' = "dropped"
    /\ io_handles' = <<>>
    /\ sender' = [ch \in Chans |->
                     IF sender[ch] = "registry" THEN "dropped" ELSE sender[ch]]
    /\ receiver' = [ch \in Chans |->
                     IF receiver[ch] = "registry" THEN "dropped" ELSE receiver[ch]]
    /\ UNCHANGED <<protocols, outq, inq, sent, facadeVars, txVars, rxVars>>

(* Multiplexer::join is called: it takes the Multiplexer by value and      *)
(* waits on tx_thread.                                                     *)
JoinCall ==
    /\ mux_state = "live"
    /\ join_pc = "idle"
    /\ mux_state' = "joining"
    /\ join_pc' = "tx"
    /\ UNCHANGED <<protocols, io_handles, sender, receiver, claim_panics, outq,
                   inq, sent, txVars, rxVars>>

(* Mutant of JoinStep: join does not wait for the thread it joins. *)
JoinStepNoWait ==
    /\ join_pc \in {"tx", "rx"}
    /\ join_pc' = IF join_pc = "tx" THEN "rx" ELSE "returned"
    /\ mux_state' = IF join_pc = "tx" THEN mux_state ELSE "dropped"
    /\ UNCHANGED <<protocols, io_handles, sender, receiver, claim_panics, outq,
                   inq, sent, txVars, rxVars>>

(* JoinHandle::join returns for the thread join waits on: Err if the       *)
(* thread panicked, and expect() panics; Ok if it returned, and join goes  *)
(* on to rx_thread, or returns.  When join ends, by return or by panic,    *)
(* what is left of the Multiplexer is dropped, io_handles included.        *)
JoinStep ==
    /\ join_pc \in {"tx", "rx"}
    /\ LET worker == IF join_pc = "tx" THEN tx_pc ELSE rx_pc
           next == IF worker = "panicked" THEN "panicked"
                   ELSE IF join_pc = "tx" THEN "rx" ELSE "returned"
       IN /\ worker \in {"panicked", "returned"}
          /\ join_pc' = next
          /\ mux_state' = IF next = "rx" THEN mux_state ELSE "dropped"
          /\ io_handles' = IF next = "rx" THEN io_handles ELSE <<>>
          /\ sender' = [ch \in Chans |->
                IF next # "rx" /\ sender[ch] = "registry" THEN "dropped"
                ELSE sender[ch]]
          /\ receiver' = [ch \in Chans |->
                IF next # "rx" /\ receiver[ch] = "registry" THEN "dropped"
                ELSE receiver[ch]]
    /\ UNCHANGED <<protocols, claim_panics, outq, inq, sent, txVars, rxVars>>

(* The mux_rx end of ch is alive: tx_loop runs and holds it in rx_map. *)
MuxRxAlive(ch) ==
    /\ tx_pc # "panicked"
    /\ \E id \in DOMAIN rx_map : rx_map[id] = ch

(* Channel.0.send(payload), a payload of len bytes. *)
SendBounded(ch, len, max) ==
    /\ sender[ch] = "app"
    /\ MuxRxAlive(ch)
    /\ SumLen(sent, Chans) < max
    /\ LET p == Bytes(<<ch, Len(sent[ch]) + 1>>, len)
       IN /\ outq' = [outq EXCEPT ![ch] = Push(@, p)]
          /\ sent' = [sent EXCEPT ![ch] = Append(@, p)]
    /\ UNCHANGED <<protocols, appVars, inq, txVars, rxVars>>

Send(ch, len) == SendBounded(ch, len, MaxEnq)

(* Channel.0 is dropped. *)
DropSender(ch) ==
    /\ sender[ch] = "app"
    /\ sender' = [sender EXCEPT ![ch] = "dropped"]
    /\ UNCHANGED <<protocols, mux_state, io_handles, receiver, outq, inq, sent,
                   facadeVars, txVars, rxVars>>

(* Channel.1.recv() with a payload queued. *)
Recv(ch) ==
    /\ receiver[ch] = "app"
    /\ inq[ch] # <<>>
    /\ inq' = [inq EXCEPT ![ch] = Tail(@)]
    /\ UNCHANGED <<protocols, appVars, outq, sent, txVars, rxVars>>

(* Channel.1 is dropped, and what its queue holds with it. *)
DropReceiver(ch) ==
    /\ receiver[ch] = "app"
    /\ receiver' = [receiver EXCEPT ![ch] = "dropped"]
    /\ inq' = [inq EXCEPT ![ch] = <<>>]
    /\ UNCHANGED <<protocols, mux_state, io_handles, sender, outq, sent,
                   facadeVars, txVars, rxVars>>

---------------------------------------------------------------------------
(* tx_loop and tx_step *)

Segment(c, id, chunk) == [clock |-> c, id |-> id, chunk |-> chunk]

(* The top of `loop`: the clock is sampled and retain() starts over the map. *)
TxPass ==
    /\ tx_pc = "pass"
    /\ \E c \in Instants : c >= clock /\ clock' = c
    /\ tx_todo' = DOMAIN rx_map
    /\ tx_pc' = "scan"
    /\ UNCHANGED <<protocols, appVars, outq, inq, sent, rx_map, tx_id, tx_payload,
                   tx_chunks, tx_i, wire, rxVars,
                   write_failed>>

(* Mutant of TryRecvValue: the payload enqueued last. *)
TryRecvNewest(ch) == outq[ch][Len(outq[ch])]

(* Receiver::try_recv on a queue with a payload. *)
TryRecvOk(ch) == outq[ch] # <<>>
TryRecvValue(ch) == Head(outq[ch])
TryRecvRest(ch) == Tail(outq[ch])

(* Mutant of TryRecvDisconnected: Disconnected as soon as no sender is left. *)
TryRecvDisconnectedEager(ch) == sender[ch] = "dropped"

TryRecvDisconnected(ch) == outq[ch] = <<>> /\ sender[ch] = "dropped"
TryRecvEmpty(ch) == outq[ch] = <<>> /\ sender[ch] # "dropped"

(* Mutant of TxStepOk: the entry stays to be visited in the same pass. *)
TxStepOkRevisits(id) ==
    /\ tx_pc = "scan"
    /\ id \in tx_todo
    /\ TryRecvOk(rx_map[id])
    /\ tx_todo' = tx_todo
    /\ tx_id' = id
    /\ tx_payload' = TryRecvValue(rx_map[id])
    /\ outq' = [outq EXCEPT ![rx_map[id]] = TryRecvRest(rx_map[id])]
    /\ tx_chunks' = chunks(TryRecvValue(rx_map[id]), MAX_SEGMENT_PAYLOAD_LENGTH)
    /\ tx_i' = 0
    /\ tx_pc' = "write"
    /\ UNCHANGED <<protocols, appVars, inq, sent, rx_map, clock, wire, rxVars,
                   write_failed>>

(* retain() calls the closure on the next entry; tx_step finds a payload. *)
TxStepOk(id) ==
    /\ tx_pc = "scan"
    /\ id \in tx_todo
    /\ TryRecvOk(rx_map[id])
    /\ tx_todo' = tx_todo \ {id}
    /\ tx_id' = id
    /\ tx_payload' = TryRecvValue(rx_map[id])
    /\ outq' = [outq EXCEPT ![rx_map[id]] = TryRecvRest(rx_map[id])]
    /\ tx_chunks' = chunks(TryRecvValue(rx_map[id]), MAX_SEGMENT_PAYLOAD_LENGTH)
    /\ tx_i' = 0
    /\ tx_pc' = "write"
    /\ UNCHANGED <<protocols, appVars, inq, sent, rx_map, clock, wire, rxVars,
                   write_failed>>

(* bearer.write_segment(clock, ingress_id, chunk) returns Ok. *)
TxWrite ==
    /\ tx_pc = "write"
    /\ tx_i < Len(tx_chunks)
    /\ wire' = Append(wire, Segment(clock, tx_id, tx_chunks[tx_i + 1]))
    /\ tx_i' = tx_i + 1
    /\ UNCHANGED <<protocols, appVars, outq, inq, sent, rx_map, tx_pc, tx_todo,
                   tx_id, tx_payload, tx_chunks, clock, rxVars,
                   write_failed>>

(* Mutant of TxWriteFail: the failed write is tried again. *)
TxWriteFailRetries ==
    /\ tx_pc = "write"
    /\ tx_i < Len(tx_chunks)
    /\ ~write_failed
    /\ write_failed' = TRUE
    /\ UNCHANGED <<protocols, appVars, outq, inq, sent, rx_map, tx_pc, tx_todo,
                   tx_id, tx_payload, tx_chunks, tx_i, clock, wire, rxVars>>

(* bearer.write_segment returns Err: BearerError, and the closure panics. *)
TxWriteFail ==
    /\ tx_pc = "write"
    /\ tx_i < Len(tx_chunks)
    /\ tx_pc' = "panicked"
    /\ write_failed' = TRUE
    /\ UNCHANGED <<protocols, appVars, outq, inq, sent, rx_map, tx_todo, tx_id,
                   tx_payload, tx_chunks, tx_i, clock, wire, rxVars>>

(* The chunks are exhausted: tx_step returns Ok(()), the closure true. *)
TxStepDone ==
    /\ tx_pc = "write"
    /\ tx_i = Len(tx_chunks)
    /\ tx_pc' = "scan"
    /\ tx_id' = NoId
    /\ tx_payload' = <<>>
    /\ tx_chunks' = <<>>
    /\ tx_i' = 0
    /\ UNCHANGED <<protocols, appVars, outq, inq, sent, rx_map, tx_todo, clock,
                   wire, rxVars,
                   write_failed>>

(* Mutant of TxStepDisconnected: the closure returns true, the entry stays. *)
TxStepDisconnectedKept(id) ==
    /\ tx_pc = "scan"
    /\ id \in tx_todo
    /\ outq[rx_map[id]] = <<>> /\ sender[rx_map[id]] = "dropped"
    /\ tx_todo' = tx_todo \ {id}
    /\ UNCHANGED <<protocols, appVars, outq, inq, sent, rx_map, tx_pc, tx_id,
                   tx_payload, tx_chunks, tx_i, clock, wire, rxVars,
                   write_failed>>

(* Mutant of TxStepDisconnected: the entry is dropped and the loop left. *)
TxStepDisconnectedBreaks(id) ==
    /\ tx_pc = "scan"
    /\ id \in tx_todo
    /\ outq[rx_map[id]] = <<>> /\ sender[rx_map[id]] = "dropped"
    /\ tx_todo' = {}
    /\ rx_map' = [k \in DOMAIN rx_map \ {id} |-> rx_map[k]]
    /\ tx_pc' = "returned"
    /\ UNCHANGED <<protocols, appVars, outq, inq, sent, tx_id, tx_payload,
                   tx_chunks, tx_i, clock, wire, rxVars,
                   write_failed>>

(* tx_step returns IngressDisconnected: the closure returns false. *)
TxStepDisconnected(id) ==
    /\ tx_pc = "scan"
    /\ id \in tx_todo
    /\ TryRecvDisconnected(rx_map[id])
    /\ tx_todo' = tx_todo \ {id}
    /\ rx_map' = RemoveKey(rx_map, id)
    /\ UNCHANGED <<protocols, appVars, outq, inq, sent, tx_pc, tx_id, tx_payload,
                   tx_chunks, tx_i, clock, wire, rxVars,
                   write_failed>>

(* Mutant of TxStepEmpty: the closure returns false, the entry is dropped. *)
TxStepEmptyDrops(id) ==
    /\ tx_pc = "scan"
    /\ id \in tx_todo
    /\ TryRecvEmpty(rx_map[id])
    /\ tx_todo' = tx_todo \ {id}
    /\ tx_id' = id
    /\ tx_pc' = "sleep"
    /\ rx_map' = [k \in DOMAIN rx_map \ {id} |-> rx_map[k]]
    /\ UNCHANGED <<protocols, appVars, outq, inq, sent, tx_payload,
                   tx_chunks, tx_i, clock, wire, rxVars,
                   write_failed>>

(* tx_step returns IngressEmpty: the closure sleeps, then returns true. *)
TxStepEmpty(id) ==
    /\ tx_pc = "scan"
    /\ id \in tx_todo
    /\ TryRecvEmpty(rx_map[id])
    /\ tx_todo' = tx_todo \ {id}
    /\ tx_id' = id
    /\ tx_pc' = "sleep"
    /\ UNCHANGED <<protocols, appVars, outq, inq, sent, rx_map, tx_payload,
                   tx_chunks, tx_i, clock, wire, rxVars,
                   write_failed>>

(* thread::sleep returns. *)
TxWake ==
    /\ tx_pc = "sleep"
    /\ tx_pc' = "scan"
    /\ tx_id' = NoId
    /\ UNCHANGED <<protocols, appVars, outq, inq, sent, rx_map, tx_todo,
                   tx_payload, tx_chunks, tx_i, clock, wire, rxVars,
                   write_failed>>

(* Mutant of TxPassEnd: the loop ends once its map is empty. *)
TxPassEndStops ==
    /\ tx_pc = "scan"
    /\ tx_todo = {}
    /\ tx_pc' = IF DOMAIN rx_map = {} THEN "returned" ELSE "pass"
    /\ UNCHANGED <<protocols, appVars, outq, inq, sent, rx_map, tx_todo, tx_id,
                   tx_payload, tx_chunks, tx_i, clock, wire, rxVars,
                   write_failed>>

(* retain() has visited every entry and returns. *)
TxPassEnd ==
    /\ tx_pc = "scan"
    /\ tx_todo = {}
    /\ tx_pc' = "pass"
    /\ UNCHANGED <<protocols, appVars, outq, inq, sent, rx_map, tx_todo, tx_id,
                   tx_payload, tx_chunks, tx_i, clock, wire, rxVars,
                   write_failed>>

TxNext ==
    \/ TxPass
    \/ \E id \in DOMAIN rx_map : TxStepOk(id)
    \/ TxWrite
    \/ TxStepDone
    \/ \E id \in DOMAIN rx_map : TxStepDisconnected(id)
    \/ \E id \in DOMAIN rx_map : TxStepEmpty(id)
    \/ TxWake
    \/ TxPassEnd

---------------------------------------------------------------------------
(* rx_loop *)

(* The mpsc Sender::send on demux_tx of ch succeeds while demux_rx lives. *)
SendOk(ch) == receiver[ch] # "dropped"

(* bearer.read_segment() returns Ok(segment). *)
RxRead(id, ts, len) ==
    /\ rx_pc = "read"
    /\ Len(rxLog) < MaxRead
    /\ LET seg == <<id, ts, Bytes(<<0, Len(rxLog) + 1>>, len)>>
       IN /\ rx_seg' = seg
          /\ rxLog' = Append(rxLog, seg)
    /\ rx_pc' = "route"
    /\ UNCHANGED <<protocols, appVars, outq, inq, sent, txVars, read_failed, tx_map, delivered>>

(* bearer.read_segment() returns Err: rx_loop panics. *)
RxReadFail ==
    /\ rx_pc = "read"
    /\ rx_pc' = "panicked"
    /\ read_failed' = TRUE
    /\ UNCHANGED <<protocols, appVars, outq, inq, sent, txVars, tx_map, rx_seg,
                   rxLog, delivered>>

(* tx_map.get(&id) is Some(tx) and tx.send(payload) is Ok. *)
RxDeliver ==
    /\ rx_pc = "route"
    /\ rx_seg[1] \in DOMAIN tx_map
    /\ SendOk(tx_map[rx_seg[1]])
    /\ inq' = [inq EXCEPT ![tx_map[rx_seg[1]]] = Push(@, rx_seg[3])]
    /\ delivered' = [delivered EXCEPT ![tx_map[rx_seg[1]]] = Append(@, rx_seg[3])]
    /\ rx_pc' = "read"
    /\ UNCHANGED <<protocols, appVars, outq, sent, txVars, read_failed, tx_map, rx_seg, rxLog>>

(* Mutant of RxSendErr: the error ends the loop. *)
RxSendErrPanics ==
    /\ rx_pc = "route"
    /\ rx_seg[1] \in DOMAIN tx_map
    /\ receiver[tx_map[rx_seg[1]]] = "dropped"
    /\ rx_pc' = "panicked"
    /\ UNCHANGED <<protocols, appVars, outq, inq, sent, txVars, read_failed, tx_map, rx_seg,
                   rxLog, delivered>>

(* tx_map.get(&id) is Some(tx) and tx.send(payload) is Err. *)
RxSendErr ==
    /\ rx_pc = "route"
    /\ rx_seg[1] \in DOMAIN tx_map
    /\ ~SendOk(tx_map[rx_seg[1]])
    /\ tx_map' = RemoveKey(tx_map, rx_seg[1])
    /\ rx_pc' = "read"
    /\ UNCHANGED <<protocols, appVars, outq, inq, sent, txVars, read_failed, rx_seg, rxLog,
                   delivered>>

(* Mutant of RxUnknown: the unknown id is registered on the first channel. *)
RxUnknownRegisters ==
    /\ rx_pc = "route"
    /\ rx_seg[1] \notin DOMAIN tx_map
    /\ tx_map' = [k \in DOMAIN tx_map \cup {rx_seg[1]} |->
                     IF k \in DOMAIN tx_map THEN tx_map[k] ELSE 1]
    /\ rx_pc' = "read"
    /\ UNCHANGED <<protocols, appVars, outq, inq, sent, txVars, read_failed, rx_seg, rxLog,
                   delivered>>

(* tx_map.get(&id) is None. *)
RxUnknown ==
    /\ rx_pc = "route"
    /\ rx_seg[1] \notin DOMAIN tx_map
    /\ rx_pc' = "read"
    /\ UNCHANGED <<protocols, appVars, outq, inq, sent, txVars, read_failed, tx_map, rx_seg,
                   rxLog, delivered>>

RxNext ==
    \/ \E id \in WireIds, ts \in WireTimestamps, len \in InboundLens : RxRead(id, ts, len)
    \/ RxReadFail
    \/ RxDeliver
    \/ RxSendErr
    \/ RxUnknown

---------------------------------------------------------------------------
(* Specifications *)

OutboundApp ==
    \/ \E id \in WireIds : UseChannel(id)
    \/ DropMultiplexer
    \/ \E ch \in Chans, len \in PayloadLens : Send(ch, len)
    \/ \E ch \in Chans : DropSender(ch)

InboundApp ==
    \/ \E id \in WireIds : UseChannel(id)
    \/ DropMultiplexer
    \/ \E ch \in Chans : Recv(ch)
    \/ \E ch \in Chans : DropReceiver(ch)

(* The facade and the Channels it hands out, the workers not scheduled. *)
FacadeNext ==
    \/ \E id \in WireIds : UseChannel(id)
    \/ \E id \in WireIds : UseChannelFail(id)
    \/ DropMultiplexer
    \/ \E ch \in Chans : DropSender(ch)
    \/ \E ch \in Chans : DropReceiver(ch)

FacadeSpec == Init /\ [][FacadeNext]_vars

(* The egress side: the applications' senders, tx_loop and the bearer's writer. *)
EgressNext == OutboundApp \/ TxNext \/ TxWriteFail

EgressSpec == Init /\ [][EgressNext]_vars

(* The egress side with the egress worker scheduled: tx_loop is a thread   *)
(* of its own that the scheduler keeps running, so a step of it that can   *)
(* be taken is taken.  Whether a write to the bearer fails is the bearer's *)
(* choice.                                                                 *)
FairOutboundApp ==
    \/ \E id \in WireIds : UseChannel(id)
    \/ DropMultiplexer
    \/ \E ch \in Chans, len \in FairPayloadLens : Send(ch, len)
    \/ \E ch \in Chans : DropSender(ch)

EgressFairNext == FairOutboundApp \/ TxNext \/ TxWriteFail

EgressFair == Init /\ [][EgressFairNext]_vars /\ WF_vars(TxNext)

(* The egress side with producers that keep several payloads queued. *)
BusyOutboundApp ==
    \/ \E id \in WireIds : UseChannel(id)
    \/ DropMultiplexer
    \/ \E ch \in Chans, len \in BusyPayloadLens : SendBounded(ch, len, MaxBusyEnq)
    \/ \E ch \in Chans : DropSender(ch)

EgressBusyNext == BusyOutboundApp \/ TxNext \/ TxWriteFail

EgressBusySpec == Init /\ [][EgressBusyNext]_vars

(* The ingress side: the bearer's reader, rx_loop and the applications' receivers. *)
IngressNext == InboundApp \/ RxNext

IngressSpec == Init /\ [][IngressNext]_vars

Next == OutboundApp \/ InboundApp \/ TxNext \/ TxWriteFail \/ RxNext

(* The whole of a Multiplexer: the application claims Channels, sends on   *)
(* them, drops senders and calls join; both workers run; the bearer takes  *)
(* segments, yields segments and fails.                                    *)
SystemApp ==
    \/ \E id \in WireIds : UseChannel(id)
    \/ \E ch \in Chans, len \in SystemPayloadLens : Send(ch, len)
    \/ \E ch \in Chans : DropSender(ch)
    \/ JoinCall
    \/ JoinStep

SystemRx ==
    \/ \E id \in SystemWireIds, ts \in WireTimestamps, len \in SystemInboundLens :
          Len(rxLog) < MaxSystemRead /\ RxRead(id, ts, len)
    \/ RxReadFail
    \/ RxDeliver
    \/ RxSendErr
    \/ RxUnknown

SystemNext == SystemApp \/ TxNext \/ TxWriteFail \/ SystemRx

SystemSpec == Init /\ [][SystemNext]_vars

(* Both workers are threads the scheduler keeps running, and so is the     *)
(* thread that has called join.  Whether the bearer fails is its choice.   *)
SystemFair ==
    SystemSpec /\ WF_vars(TxNext) /\ WF_vars(RxDeliver \/ RxSendErr \/ RxUnknown)
               /\ WF_vars(JoinStep)

Spec == Init /\ [][Next]_vars

---------------------------------------------------------------------------
(* What the claims speak of. *)

AllChans == UNION {DOMAIN s : s \in ProtocolLists}
AllIds == UNION {{s[i] : i \in DOMAIN s} : s \in ProtocolLists}

(* The registered ids, and the channel setup leaves registered under id. *)
Registered == {protocols[ch] : ch \in Chans}
ChanOf(id) == Collect(protocols)[id]

ChunksOf(segs) == [i \in DOMAIN segs |-> segs[i].chunk]

(* The segments written with id, in the order written. *)
WireOf(id) == SelectSeq(wire, LAMBDA s : s.id = id)

(* The segments the running tx_step has written. *)
StepSegments == SubSeq(wire, Len(wire) - tx_i + 1, Len(wire))

(* tx_step has run out of chunks and is about to return Ok(()). *)
StepReturnsOk == tx_pc = "write" /\ tx_i = Len(tx_chunks)

(* The payload a segment's chunk was cut from (a chunk is never empty). *)
PayloadOf(seg) == seg.chunk[1].tag

TestLimits == {(MAX_SEGMENT_PAYLOAD_LENGTH + 1) \div 8, (MAX_SEGMENT_PAYLOAD_LENGTH + 1) \div 2,
               MAX_SEGMENT_PAYLOAD_LENGTH - 1, MAX_SEGMENT_PAYLOAD_LENGTH,
               MAX_SEGMENT_PAYLOAD_LENGTH + 1, 2 * MAX_SEGMENT_PAYLOAD_LENGTH + 1}

---------------------------------------------------------------------------
(* C1: a payload enqueued on a registered id's sender is written to the    *)
(* bearer as one or more segments all carrying that id, whatever its       *)
(* length, 0 included.  Stated of the payloads tx_step has taken off the   *)
(* queue: when tx_step returns Ok(()) for a payload it has written at      *)
(* least one segment, and every segment it wrote carries the id.           *)
C1_WrittenAsOneOrMoreSegments ==
    StepReturnsOk =>
        /\ tx_i >= 1
        /\ \A i \in DOMAIN StepSegments : StepSegments[i].id = tx_id

(* C2: every segment written to the bearer carries a chunk of at most      *)
(* MAX_SEGMENT_PAYLOAD_LENGTH bytes.                                       *)
C2_ChunkWithinLimit ==
    \A i \in DOMAIN wire : BLen(wire[i].chunk) <= MAX_SEGMENT_PAYLOAD_LENGTH

(* Payloads of different lengths were enqueued, a payload longer than the  *)
(* limit has been cut, and a chunk of exactly the limit is on the wire.    *)
C2_Witness ==
    /\ Len(wire) >= 3
    /\ \E i \in DOMAIN wire : BLen(wire[i].chunk) = MAX_SEGMENT_PAYLOAD_LENGTH
    /\ \E ch \in Chans : /\ Len(sent[ch]) = 2
                         /\ BLen(sent[ch][1]) < BLen(sent[ch][2])

(* C3: the chunks tx_step writes for a payload P, concatenated in the      *)
(* order written, are P; and so are the chunks of P for any limit L.       *)
C3_ChunksReconstructPayload ==
    /\ StepReturnsOk => BCatAll(ChunksOf(StepSegments)) = tx_payload
    /\ tx_pc = "write" =>
          /\ BCatAll(ChunksOf(StepSegments)) = BSub(tx_payload, 0,
                 BLen(BCatAll(ChunksOf(StepSegments))))
          /\ \A L \in TestLimits : BCatAll(chunks(tx_payload, L)) = tx_payload

(* tx_step has written a payload of 2*L+1 bytes in three segments. *)
C3_Witness ==
    /\ StepReturnsOk
    /\ BLen(tx_payload) = 2 * MAX_SEGMENT_PAYLOAD_LENGTH + 1
    /\ tx_i = 3

(* C4: for each id, the chunks of the segments written with that id,       *)
(* concatenated, are at every moment a prefix of the payloads enqueued on  *)
(* that id's outbound queue, concatenated in the order enqueued.           *)
C4_WirePrefixOfEnqueued ==
    /\ \A i \in DOMAIN wire : wire[i].id \in Registered
    /\ \A id \in Registered :
          BIsPrefix(BCatAll(ChunksOf(WireOf(id))), BCatAll(sent[ChanOf(id)]))

(* Two payloads of one id are on the wire in full, the first of them cut   *)
(* in two, with the other id's queue visited in between.                   *)
C4_Witness ==
    \E id \in Registered :
        /\ Len(sent[ChanOf(id)]) = 2
        /\ BLen(sent[ChanOf(id)][1]) > MAX_SEGMENT_PAYLOAD_LENGTH
        /\ BLen(sent[ChanOf(id)][2]) > 0
        /\ BCatAll(ChunksOf(WireOf(id))) = BCatAll(sent[ChanOf(id)])

(* C5: the segments of one payload all carry the same id and are written   *)
(* consecutively, in the payload's byte order, no segment of any other     *)
(* payload between them.                                                   *)
C5_SegmentsOfPayloadConsecutive ==
    /\ \A i, j \in DOMAIN wire :
          (i < j /\ PayloadOf(wire[i]) = PayloadOf(wire[j])) =>
              \A k \in i..j : /\ PayloadOf(wire[k]) = PayloadOf(wire[i])
                              /\ wire[k].id = wire[i].id
    /\ \A i \in DOMAIN wire :
          IF i > 1 /\ PayloadOf(wire[i - 1]) = PayloadOf(wire[i])
          THEN wire[i].chunk[1].from = wire[i - 1].chunk[1].to
          ELSE wire[i].chunk[1].from = 0

(* A payload of three segments is on the wire after a segment of another   *)
(* id's payload.                                                           *)
C5_Witness ==
    /\ Len(wire) >= 4
    /\ PayloadOf(wire[Len(wire)]) = PayloadOf(wire[Len(wire) - 2])
    /\ wire[1].id # wire[Len(wire)].id


(* C8, as claimed: once the sender of a protocol is dropped, no further    *)
(* segment is written for that id.                                         *)
C8_NoSegmentAfterSenderDropped ==
    [][\A id \in AllIds :
          (id \in Registered /\ sender[ChanOf(id)] = "dropped") =>
              WireOf(id)' = WireOf(id)]_vars

(* C8, amended: once the sender of a protocol is dropped and its queue has *)
(* been emptied, tx_step finds the queue disconnected and the entry is     *)
(* removed; it is removed in no other case; once removed it is never       *)
(* re-added and no further segment is written for that id.                 *)
C8_StopsServicingOnceDrained ==
    [][\A id \in AllIds :
          /\ (id \in Registered /\ id \notin DOMAIN rx_map) =>
                /\ id \notin DOMAIN rx_map'
                /\ WireOf(id)' = WireOf(id)
          /\ (id \in DOMAIN rx_map /\ tx_pc = "scan" /\ id \in tx_todo
                /\ id \notin tx_todo' /\ sender[rx_map[id]] = "dropped"
                /\ outq[rx_map[id]] = <<>>) =>
                id \notin DOMAIN rx_map'
          /\ (id \in DOMAIN rx_map /\ id \notin DOMAIN rx_map') =>
                /\ sender[rx_map[id]] = "dropped"
                /\ outq[rx_map[id]] = <<>>
          /\ (id \in DOMAIN rx_map /\ sender[rx_map[id]] = "dropped"
                /\ outq[rx_map[id]] = <<>> /\ tx_id # id) =>
                WireOf(id)' = WireOf(id)]_vars

(* An id whose sender was dropped with a payload queued has had that       *)
(* payload written and its entry removed, while the other id is served.    *)
C8_Witness ==
    \E id \in Registered :
        /\ id \notin DOMAIN rx_map
        /\ WireOf(id) # <<>>
        /\ \E other \in DOMAIN rx_map : WireOf(other) # <<>>


(* The segments rx_loop has read and routed. *)
Processed == IF rx_pc = "route" THEN SubSeq(rxLog, 1, Len(rxLog) - 1) ELSE rxLog

(* The payloads of the segments of segs that carry id, in order. *)
PayloadsFor(segs, id) ==
    LET own == SelectSeq(segs, LAMBDA s : s[1] = id)
    IN [i \in DOMAIN own |-> own[i][3]]

IsPrefixSeq(a, b) == Len(a) <= Len(b) /\ a = SubSeq(b, 1, Len(a))
IsSuffixSeq(a, b) == Len(a) <= Len(b) /\ a = SubSeq(b, Len(b) - Len(a) + 1, Len(b))

(* rx_loop has finished with the segment it read. *)
RxRouted == rx_pc = "route" /\ rx_pc' # "route"

(* C6: for each registered id whose receiver is alive, the payloads pushed *)
(* onto its inbound queue are, in order and one per segment, the chunks of *)
(* the segments read with that id; no queue is ever given a segment of     *)
(* another id; what the queue holds is what was pushed and not yet taken.  *)
C6_DeliveredIsSegmentsOfId ==
    \A ch \in Chans :
        /\ IsPrefixSeq(delivered[ch], PayloadsFor(Processed, protocols[ch]))
        /\ (ChanOf(protocols[ch]) = ch /\ receiver[ch] # "dropped") =>
              /\ delivered[ch] = PayloadsFor(Processed, protocols[ch])
              /\ IsSuffixSeq(inq[ch], delivered[ch])
        /\ ChanOf(protocols[ch]) # ch => delivered[ch] = <<>>

(* Two segments of one id were read with a segment of another registered   *)
(* id between them, all three were delivered, and the application has      *)
(* taken the first.                                                        *)
C6_Witness ==
    /\ rx_pc = "read"
    /\ Len(rxLog) = 3
    /\ rxLog[1][1] = rxLog[3][1]
    /\ rxLog[2][1] # rxLog[1][1]
    /\ rxLog[2][1] \in DOMAIN tx_map
    /\ rxLog[1][3] # <<>> /\ rxLog[3][3] # <<>>
    /\ rxLog[1][1] \in DOMAIN tx_map
    /\ Len(delivered[tx_map[rxLog[1][1]]]) = 2
    /\ Len(inq[tx_map[rxLog[1][1]]]) = 1
    /\ Len(delivered[tx_map[rxLog[2][1]]]) = 1

(* C9: a segment for an id whose receiver was dropped removes the id's     *)
(* entry from the map and is discarded, the loop going on to its next      *)
(* read; a removed entry never returns, so later segments for the id are   *)
(* discarded too; a segment for an id whose receiver is alive is pushed    *)
(* onto that id's queue, whatever has happened to the other ids.           *)
C9_DroppedReceiverIsolated ==
    [][/\ \A id \in WireIds :
             id \notin DOMAIN tx_map => id \notin DOMAIN tx_map'
       /\ (RxRouted /\ rx_seg[1] \in DOMAIN tx_map) =>
             IF receiver[tx_map[rx_seg[1]]] = "dropped"
             THEN /\ rx_pc' = "read"
                  /\ rx_seg[1] \notin DOMAIN tx_map'
                  /\ \A id \in DOMAIN tx_map \ {rx_seg[1]} :
                        id \in DOMAIN tx_map' /\ tx_map'[id] = tx_map[id]
                  /\ inq' = inq
                  /\ delivered' = delivered
             ELSE /\ rx_pc' = "read"
                  /\ tx_map' = tx_map
                  /\ inq' = [inq EXCEPT ![tx_map[rx_seg[1]]] = Append(@, rx_seg[3])]
       /\ (RxRouted /\ rx_seg[1] \notin DOMAIN tx_map) =>
             /\ rx_pc' = "read"
             /\ inq' = inq]_vars

(* A's receiver was dropped, a segment for A removed A's entry, and a      *)
(* segment for B read after it is in B's queue.                            *)
C9_Witness ==
    /\ rx_pc = "read"
    /\ Len(rxLog) >= 3
    /\ \E a \in Registered, b \in DOMAIN tx_map :
          /\ a \notin DOMAIN tx_map
          /\ receiver[ChanOf(a)] = "dropped"
          /\ rxLog[Len(rxLog) - 2][1] = a
          /\ rxLog[Len(rxLog) - 1][1] = a
          /\ rxLog[Len(rxLog)][1] = b
          /\ inq[tx_map[b]] # <<>>
          /\ inq[tx_map[b]][Len(inq[tx_map[b]])] = rxLog[Len(rxLog)][3]

(* A segment whose id is not in the map has been routed before. *)
UnknownSeen ==
    \E i \in DOMAIN Processed : Processed[i][1] \notin Registered

(* C10: a segment whose id is not in rx_loop's map is dropped: nothing is  *)
(* pushed on any queue, the map stays as it is and the loop goes on to its *)
(* next read; a segment with a registered id read after it is pushed on    *)
(* that id's queue.                                                        *)
C10_UnknownIdDropped ==
    [][/\ (RxRouted /\ rx_seg[1] \notin DOMAIN tx_map) =>
             /\ rx_pc' = "read"
             /\ tx_map' = tx_map
             /\ inq' = inq
             /\ delivered' = delivered
       /\ (RxRouted /\ UnknownSeen /\ rx_seg[1] \in DOMAIN tx_map
             /\ receiver[tx_map[rx_seg[1]]] # "dropped") =>
             /\ rx_pc' = "read"
             /\ tx_map' = tx_map
             /\ delivered' = [delivered EXCEPT ![tx_map[rx_seg[1]]] =
                                 Append(@, rx_seg[3])]
             /\ inq' = [inq EXCEPT ![tx_map[rx_seg[1]]] = Append(@, rx_seg[3])]]_vars

(* A segment with an unregistered id was dropped and the segment with a    *)
(* registered id read after it is the only one in that id's queue.         *)
C10_Witness ==
    /\ rx_pc = "read"
    /\ Len(rxLog) = 2
    /\ rxLog[1][1] \notin Registered
    /\ rxLog[2][1] \in DOMAIN tx_map
    /\ rxLog[2][3] # <<>>
    /\ inq[tx_map[rxLog[2][1]]] = <<rxLog[2][3]>>
    /\ \A ch \in Chans : ch # tx_map[rxLog[2][1]] => inq[ch] = <<>>


(* The payloads tx_step has taken off the queue of ch. *)
Popped(ch) == Len(sent[ch]) - Len(outq[ch])

(* The first k payloads enqueued on ch are on the wire in full. *)
WrittenUpTo(ch, k) ==
    /\ Popped(ch) >= k
    /\ BIsPrefix(BCatAll(SubSeq(sent[ch], 1, k)),
                 BCatAll(ChunksOf(WireOf(protocols[ch]))))

(* C7: with the sender of protocol A dropped, every payload enqueued on    *)
(* another protocol B is eventually taken off B's queue and written in     *)
(* full, unless a write to the bearer fails.                               *)
C7_OthersWrittenAfterDrop ==
    \A a \in AllIds, b \in AllIds, k \in 1..MaxEnq :
        (/\ a # b /\ a \in Registered /\ b \in Registered
         /\ sender[ChanOf(a)] = "dropped"
         /\ Len(sent[ChanOf(b)]) >= k)
            ~> (tx_pc = "panicked" \/ (b \in Registered /\ WrittenUpTo(ChanOf(b), k)))

(* A's sender was dropped and A's entry removed in the pass in which a     *)
(* payload of B, enqueued after the drop was seen, is being written.       *)
C7_Witness ==
    \E a \in Registered, b \in DOMAIN rx_map :
        /\ a \notin DOMAIN rx_map
        /\ a \notin tx_todo
        /\ sent[ChanOf(a)] # <<>>
        /\ sender[ChanOf(a)] = "dropped"
        /\ tx_pc = "write"
        /\ tx_id = b
        /\ tx_i >= 2
        /\ WireOf(a) # <<>>


(* A call of use_channel has ended: a Channel was handed out, or it panicked. *)
ClaimOk(id) == id \in DOMAIN io_handles /\ id \notin DOMAIN io_handles'
ClaimPanic(id) == id \notin claim_panics /\ id \in claim_panics'

(* C11: a claim of an id the registry holds removes that id's entry, hands *)
(* its Channel (both ends) to the caller and leaves the other entries as   *)
(* they are; an entry once removed never returns, so an id is claimed at   *)
(* most once; a claim of an id the registry does not hold (claimed before, *)
(* or never passed to setup) panics in the caller and leaves the registry  *)
(* and every Channel as they are.                                          *)
C11_ClaimedAtMostOnce ==
    [][\A id \in WireIds :
          /\ id \notin DOMAIN io_handles => id \notin DOMAIN io_handles'
          /\ (ClaimOk(id) /\ mux_state' = "live") =>
                /\ id \in Registered
                /\ io_handles[id] = ChanOf(id)
                /\ sender[io_handles[id]] = "registry"
                /\ sender'[io_handles[id]] = "app"
                /\ receiver[io_handles[id]] = "registry"
                /\ receiver'[io_handles[id]] = "app"
                /\ \A k \in DOMAIN io_handles \ {id} :
                      k \in DOMAIN io_handles' /\ io_handles'[k] = io_handles[k]
                /\ claim_panics' = claim_panics
          /\ ClaimPanic(id) =>
                /\ id \notin DOMAIN io_handles
                /\ io_handles' = io_handles
                /\ sender' = sender
                /\ receiver' = receiver
          /\ (id \notin DOMAIN io_handles /\ id \notin claim_panics
                /\ mux_state = "live") =>
                ENABLED (UseChannelFail(id) /\ id \in claim_panics')
          /\ \A ch \in Chans :
                (sender[ch] = "registry" /\ sender'[ch] = "app") =>
                    /\ ClaimOk(protocols[ch])
                    /\ io_handles[protocols[ch]] = ch]_vars

(* Id 1 was claimed, a second claim of it panicked, a claim of the id 3    *)
(* never passed to setup panicked, and id 2 is still in the registry.      *)
C11_Witness ==
    /\ mux_state = "live"
    /\ claim_panics = {1, 3}
    /\ DOMAIN io_handles = {2}
    /\ sender[ChanOf(1)] = "app"
    /\ sender[ChanOf(2)] = "registry"


(* C12: when a worker has terminated because of a transport failure, a     *)
(* call of join eventually stops blocking and surfaces the termination     *)
(* (it panics in the caller); this for a write failure in the egress       *)
(* worker, and for a read failure in the ingress worker while the egress   *)
(* worker still runs.                                                      *)
C12_JoinSurfacesFailure ==
    /\ (join_pc \in {"tx", "rx"} /\ write_failed) ~> (join_pc = "panicked")
    /\ (join_pc \in {"tx", "rx"} /\ read_failed) ~> (join_pc = "panicked")


Terminated == {"panicked", "returned"}

(* C13: join blocks until both workers have terminated: it never returns   *)
(* normally while the egress or the ingress worker is still running; it    *)
(* stops waiting on a worker only once that worker has terminated, and     *)
(* does not wait on the ingress worker before the egress worker has.       *)
C13_JoinBlocksUntilBothTerminated ==
    /\ [](join_pc = "returned" => tx_pc \in Terminated /\ rx_pc \in Terminated)
    /\ [](join_pc = "rx" => tx_pc \in Terminated)
    /\ [][/\ (join_pc = "tx" /\ join_pc' # "tx") => tx_pc \in Terminated
          /\ (join_pc = "rx" /\ join_pc' # "rx") => rx_pc \in Terminated
          /\ join_pc' = "returned" => join_pc \in {"rx", "returned"}
          /\ join_pc \in {"tx", "rx"} => join_pc' \in {join_pc, "rx", "returned", "panicked"}]_vars

C13_Witness ==
    /\ join_pc = "tx"
    /\ rx_pc = "panicked"
    /\ tx_pc \notin Terminated
    /\ wire # <<>>


(* C17: the egress worker never terminates on its own: while it has not    *)
(* met a write failure it always has a next step, also once its map is     *)
(* empty; it terminates only by the panic that follows a failed bearer     *)
(* write; so join gets past the egress worker, and a fortiori returns,     *)
(* only after a write failure.                                             *)
C17_EgressEndsOnlyOnWriteFailure ==
    /\ tx_pc \in Terminated => (tx_pc = "panicked" /\ write_failed)
    /\ tx_pc \notin Terminated => ENABLED TxNext
    /\ (DOMAIN rx_map = {} /\ tx_pc = "pass") => ENABLED TxPass
    /\ (DOMAIN rx_map = {} /\ tx_pc = "scan") => ENABLED TxPassEnd
    /\ join_pc \in {"rx", "returned", "panicked"} => write_failed
    /\ join_pc = "returned" => (write_failed \/ read_failed)

C17_Witness ==
    /\ DOMAIN rx_map = {}
    /\ tx_pc = "pass"
    /\ clock = 1
    /\ join_pc = "tx"
    /\ wire # <<>>
    /\ ~write_failed
    /\ ~read_failed


(* C14: after a transport failure nothing more is processed on that side.  *)
(* Once a bearer write has failed the egress worker has ended: the failed  *)
(* chunk is not written, and from then on no segment is written and no     *)
(* payload is popped, whatever is left of the payload in progress and      *)
(* whatever other ids have queued.  Once a bearer read has failed the      *)
(* ingress worker has ended: no further segment is read and nothing more   *)
(* is delivered.  Neither failure is undone or retried.                    *)
C14_NothingProcessedAfterFailure ==
    /\ [](write_failed => tx_pc = "panicked")
    /\ [](read_failed => rx_pc = "panicked")
    /\ [][/\ write_failed =>
                /\ txVars' = txVars
                /\ \A ch \in Chans : IsPrefixSeq(outq[ch], outq'[ch])
          /\ (~write_failed /\ write_failed') =>
                /\ tx_pc = "write"
                /\ wire' = wire
                /\ outq' = outq
          /\ read_failed =>
                /\ rxVars' = rxVars
                /\ inq' = inq
          /\ (~read_failed /\ read_failed') =>
                /\ rx_pc = "read"
                /\ rxLog' = rxLog
                /\ delivered' = delivered
                /\ inq' = inq]_vars

C14_Witness ==
    /\ write_failed
    /\ Len(tx_chunks) = 2
    /\ tx_i = 1
    /\ \E ch \in Chans : protocols[ch] # tx_id /\ outq[ch] # <<>>
    /\ read_failed
    /\ \E ch \in Chans : delivered[ch] # <<>>


(* C15: the egress worker sleeps only after every id of the pass has been  *)
(* scanned: whenever it sleeps no id of the current pass is still to be    *)
(* visited, so there is no sleep between two ids of one pass.              *)
C15_SleepsOnlyAfterFullPass ==
    tx_pc = "sleep" => tx_todo = {}


(* A payload is popped from the queue of id in this step. *)
PopOf(id) ==
    /\ id \in DOMAIN rx_map
    /\ Len(outq'[rx_map[id]]) < Len(outq[rx_map[id]])

(* C16: each egress pass visits every id still in the map exactly once     *)
(* and pops at most one payload per id: a pass starts with every id of     *)
(* the map to be visited and only when the pass before has visited all     *)
(* of its ids; a visit takes one id off the ids to be visited; a payload   *)
(* is popped only at the visit of its id, and one payload only.  So an     *)
(* id is not popped a second time before the pass has come to every        *)
(* other id.                                                               *)
C16_OnePayloadPerIdPerPass ==
    /\ [](tx_pc = "pass" => tx_todo = {})
    /\ [](tx_todo \subseteq DOMAIN rx_map)
    /\ [][/\ \A id \in AllIds :
                /\ PopOf(id) =>
                      /\ tx_pc = "scan"
                      /\ id \in tx_todo
                      /\ id \notin tx_todo'
                      /\ Len(outq'[rx_map[id]]) = Len(outq[rx_map[id]]) - 1
                      /\ \A other \in DOMAIN rx_map \ {id} : ~PopOf(other)
                /\ (id \in DOMAIN rx_map /\ id \notin DOMAIN rx_map') => id \in tx_todo
          /\ ~(tx_todo' \subseteq tx_todo) =>
                /\ tx_pc = "pass"
                /\ tx_todo = {}
                /\ tx_todo' = DOMAIN rx_map
          /\ (tx_pc = "pass" /\ tx_pc' # "pass") => tx_todo' = DOMAIN rx_map
          /\ (tx_pc # "pass" /\ tx_todo' # tx_todo) =>
                /\ tx_todo' \subseteq tx_todo
                /\ Cardinality(tx_todo \ tx_todo') = 1]_vars

C16_Witness ==
    /\ protocols = <<1, 2>>
    /\ tx_pc = "write"
    /\ tx_id = 2
    /\ tx_i = 1
    /\ tx_todo = {}
    /\ Len(wire) = 3
    /\ PayloadOf(wire[1]) = <<1, 1>>
    /\ Len(sent[1]) = 2
    /\ Len(outq[1]) = 1


(* The egress worker is between tx_steps and every id left in its map has  *)
(* an empty queue with a sender alive.                                     *)
AllIdle ==
    /\ tx_pc \in {"pass", "scan", "sleep"}
    /\ \A id \in DOMAIN rx_map : TryRecvEmpty(rx_map[id])

(* C18: a pass over ids whose queues are all empty but connected writes    *)
(* no segment, raises no error and leaves the map and every queue as they  *)
(* were: each step the egress worker takes in such a pass changes neither  *)
(* the wire, nor the map, nor a queue, does not end the worker, and leaves *)
(* it where the same holds again, so any number of such passes has the     *)
(* effect of one.                                                          *)
C18_IdlePassChangesNothing ==
    [][(AllIdle /\ txVars' # txVars) =>
          /\ wire' = wire
          /\ rx_map' = rx_map
          /\ outq' = outq
          /\ sent' = sent
          /\ write_failed' = write_failed
          /\ tx_pc' \in {"pass", "scan", "sleep"}
          /\ AllIdle']_vars

C18_Witness ==
    /\ tx_pc = "sleep"
    /\ tx_todo = {}
    /\ clock = 1
    /\ DOMAIN rx_map = {1, 2}
    /\ \A ch \in Chans : sent[ch] = <<>>
    /\ sender[ChanOf(1)] = "app"
    /\ sender[ChanOf(2)] = "registry"
    /\ AllIdle


(* The channel made by the later (the last) registration of id in the      *)
(* list given to setup.                                                    *)
LaterRegistration(id) ==
    CHOOSE ch \in Chans :
        protocols[ch] = id /\ ~(\E j \in Chans : j > ch /\ protocols[j] = id)

(* C19: with an id given twice to setup the later registration replaces    *)
(* the earlier one alike in the registry, the egress map and the ingress   *)
(* map: the Channel use_channel hands out for the id is the one whose      *)
(* outbound queue the egress loop polls and whose inbound queue the        *)
(* ingress loop pushes to; what is written with the id is what was sent    *)
(* on that Channel, what is read with the id is delivered on it, and the   *)
(* replaced Channel is never used.                                         *)
C19_LaterRegistrationWins ==
    /\ \A id \in Registered :
          LET last == LaterRegistration(id)
          IN /\ id \in DOMAIN io_handles => io_handles[id] = last
             /\ id \in DOMAIN rx_map => rx_map[id] = last
             /\ id \in DOMAIN tx_map => tx_map[id] = last
             /\ BIsPrefix(BCatAll(ChunksOf(WireOf(id))), BCatAll(sent[last]))
             /\ IsPrefixSeq(delivered[last], PayloadsFor(rxLog, id))
    /\ \A ch \in Chans :
          ch # LaterRegistration(protocols[ch]) =>
              /\ sender[ch] = "dropped"
              /\ receiver[ch] = "dropped"
              /\ sent[ch] = <<>>
              /\ outq[ch] = <<>>
              /\ inq[ch] = <<>>
              /\ delivered[ch] = <<>>

C19_Witness ==
    /\ protocols = <<1, 2, 1>>
    /\ sender[3] = "app"
    /\ receiver[3] = "app"
    /\ sent[3] # <<>>
    /\ WrittenUpTo(3, 1)
    /\ delivered[3] # <<>>
    /\ inq[3] # <<>>


(* Every payload enqueued with id is on the wire in full and nothing of    *)
(* the id is left queued.                                                  *)
AllWritten(id) ==
    /\ outq[LaterRegistration(id)] = <<>>
    /\ BCatAll(ChunksOf(WireOf(id))) = BCatAll(sent[LaterRegistration(id)])

(* C20: the egress loop removes an id from its map only when the id's      *)
(* outbound queue is empty and no sender of it is left, the unclaimed      *)
(* handle in the registry counting as a sender: at the step that removes   *)
(* the id, and ever after, the sender is dropped and every payload         *)
(* enqueued with the id has been written in full; while a sender is        *)
(* left, in the application or in the registry, the id stays in the map.   *)
C20_RemovedOnlyWhenDrained ==
    /\ [](\A id \in Registered :
             /\ id \notin DOMAIN rx_map =>
                   /\ sender[LaterRegistration(id)] = "dropped"
                   /\ AllWritten(id)
             /\ sender[LaterRegistration(id)] # "dropped" => id \in DOMAIN rx_map)
    /\ [][\A id \in Registered :
             (id \in DOMAIN rx_map /\ id \notin DOMAIN rx_map') =>
                 /\ sender[LaterRegistration(id)] = "dropped"
                 /\ AllWritten(id)
                 /\ wire' = wire
                 /\ outq' = outq]_vars

C20_Witness ==
    /\ protocols = <<1, 2>>
    /\ DOMAIN rx_map = {2}
    /\ sender[2] = "registry"
    /\ Len(sent[1]) = 2
    /\ Len(wire) = 4
    /\ AllWritten(1)

=============================================================================
